---------------------------- MODULE Spec2Model ----------------------------
(***************************************************************************)
(* Model of the audio step of the blog-to-podcast converter:               *)
(* AudioGeneratorAgent (agents/audio_generator.py) as it is driven by      *)
(* BlogToPodcastPipeline.run (core/pipeline.py) or invoked directly        *)
(* through its runnable (specification Spec).  Parts of the program are    *)
(* also run on their own: the loudness normalizer on arbitrary clips       *)
(* (NormSpec), two successive calls of _synthesize (SynthSpec), the script *)
(* generator with its language-model client (ScriptSpec) and concurrent    *)
(* requests to the web endpoint (WebSpec).                                 *)
(*                                                                         *)
(* Amplitudes are kept in the logarithmic domain: a sample is zero or a    *)
(* sign and a level in whole dB relative to full scale (dBFS, <= 0), so    *)
(* that apply_gain(g) is the addition of g with clipping at full scale.    *)
(* A frame of a modelled clip stands for a 250 ms slice of audio.          *)
(***************************************************************************)
EXTENDS Integers, Sequences, FiniteSets, TLC

(***************************************************************************)
(* Bounds of the model.                                                    *)
(***************************************************************************)
\* the number of known keys a synthesis response populates with a truthy value
MaxFields == 2
\* the number of frames of a clip given to the normalizer on its own
MaxFrames == 2
\* the number of successive calls of _synthesize made on its own
SynthCalls == 2
\* the number of requests the web endpoint receives
NumRequests == 2
\* the number of times a client follows the audio_url it was given
MaxDownloads == 2
\* the length of the texts given to and returned by the language model
MaxChars == 2

(***************************************************************************)
(* Program constants.                                                      *)
(***************************************************************************)
\* stop=stop_after_attempt(2)
MaxAttempts == 2
\* wait=wait_fixed(2)
RetryDelay == 2
\* target_lufs, speech_delta_db, music_delta_db (dataclass defaults)
target_lufs == -14
speech_delta_db == 1
music_delta_db == -1
\* the canonical format of _standardize_segment
StdFrameRate == 44100
StdSampleWidth == 2
StdChannels == 2
\* fade_in=2000 for the intro, fade_out=1500 for the outro (milliseconds)
IntroFadeIn == 2000
OutroFadeOut == 1500
\* ScriptGeneratorAgent._run: stop=stop_after_attempt(3), wait=wait_fixed(2)
SgMaxAttempts == 3
SgRetryDelay == 2
\* pyloudnorm's Meter measures in blocks of 0.400 s
BlockMs == 400
\* a modelled frame lasts 250 ms
FrameMs == 250
\* max_dBFS of a clip without any non-zero sample: ratio_to_db(0) = -infinity
NegInf == -1000

InlineKeys == <<"encoded_audio", "encodedAudio", "encodedAudioBase64", "encodedAudio64">>
UrlKeys == <<"audio_file", "audioFile", "url", "audio_url", "signedUrl">>

Range(s) == {s[i] : i \in DOMAIN s}
AllKeys == Range(InlineKeys) \cup Range(UrlKeys)

MaxOf(S) == CHOOSE x \in S : \A y \in S : y <= x
MinOf(S) == CHOOSE x \in S : \A y \in S : x <= y

(***************************************************************************)
(* Audio clips (pydub.AudioSegment).                                       *)
(***************************************************************************)
Zero == [sgn |-> 0, db |-> 0]
Smp(s, d) == [sgn |-> s, db |-> d]

Clip(rate, width, channels, frames) ==
    [frame_rate |-> rate, sample_width |-> width, channels |-> channels, frames |-> frames]

NoClip == Clip(0, 0, 0, <<>>)

\* the samples of a clip, all channels
SamplesOf(segment) ==
    {segment.frames[i][c] : i \in DOMAIN segment.frames, c \in 1..segment.channels}

\* AudioSegment.apply_gain: every sample scaled by 10^(gain/20), clipped at full scale
ApplyGainSample(s, gain) ==
    IF s.sgn = 0 THEN s ELSE Smp(s.sgn, IF s.db + gain > 0 THEN 0 ELSE s.db + gain)

apply_gain(segment, gain) ==
    [segment EXCEPT !.frames =
        [i \in DOMAIN segment.frames |->
            [c \in 1..segment.channels |-> ApplyGainSample(segment.frames[i][c], gain)]]]

\* AudioSegment.max_dBFS: the level of the largest sample, -infinity for silence
max_dBFS(segment) ==
    LET nz == {s \in SamplesOf(segment) : s.sgn # 0}
    IN IF nz = {} THEN NegInf ELSE MaxOf({s.db : s \in nz})

\* the channel average of one frame: zero exactly when the samples cancel
MeanOfFrame(frame, channels) ==
    IF channels = 1 THEN frame[1]
    ELSE LET l == frame[1]
             r == frame[2]
         IN CASE l.sgn = 0 /\ r.sgn = 0 -> Zero
              [] l.sgn = 0 -> Smp(r.sgn, r.db - 6)
              [] r.sgn = 0 -> Smp(l.sgn, l.db - 6)
              [] l.sgn = r.sgn -> Smp(l.sgn, IF l.db >= r.db THEN l.db ELSE r.db)
              [] l.db = r.db -> Zero
              [] l.db > r.db -> Smp(l.sgn, l.db - 6)
              [] OTHER -> Smp(r.sgn, r.db - 6)

segment_to_float_array(segment) ==
    [i \in DOMAIN segment.frames |-> MeanOfFrame(segment.frames[i], segment.channels)]

\* np.any(array)
AnyNonZero(array) == \E i \in DOMAIN array : array[i].sgn # 0

\* pyln.Meter(rate).integrated_loudness(array): refuses input shorter than one
\* block; otherwise one loudness value for the whole array, which moves by g
\* when the array is scaled by g dB
MeterRaises(array) == Len(array) * FrameMs < BlockMs

integrated_loudness(array) ==
    MaxOf({array[i].db : i \in {j \in DOMAIN array : array[j].sgn # 0}})

\* _normalize_lufs: the outcome is the clip returned or the error raised, with
\* the array the meter measured (<<>> when it measured nothing)
NormOk(segment, measured) == [ok |-> TRUE, segment |-> segment, measured |-> measured]
NormErr(measured) == [ok |-> FALSE, segment |-> NoClip, measured |-> measured]

\* a normalizer without the test for silence: the meter gives -infinity
normalize_lufs_no_skip(segment, target) ==
    LET array == segment_to_float_array(segment)
        loudness == IF AnyNonZero(array) THEN integrated_loudness(array) ELSE NegInf
    IN IF MeterRaises(array) THEN NormErr(array)
       ELSE NormOk(apply_gain(segment, target - loudness), array)

normalize_lufs(segment, target) ==
    LET array == segment_to_float_array(segment)
    IN IF ~AnyNonZero(array) THEN NormOk(segment, <<>>)
       ELSE IF MeterRaises(array) THEN NormErr(array)
       ELSE NormOk(apply_gain(segment, target - integrated_loudness(array)), array)

\* AudioSegment.set_channels(2)
SetChannelsFrame(frame, from) == IF from = 1 THEN <<frame[1], frame[1]>> ELSE frame

\* a standardization without set_frame_rate
standardize_keep_rate(segment) ==
    Clip(segment.frame_rate, StdSampleWidth, StdChannels,
         [i \in DOMAIN segment.frames |-> SetChannelsFrame(segment.frames[i], segment.channels)])

standardize_segment(segment) ==
    Clip(StdFrameRate, StdSampleWidth, StdChannels,
         [i \in DOMAIN segment.frames |-> SetChannelsFrame(segment.frames[i], segment.channels)])

\* the attenuation of the k-th of n frames of a fade, counted from its quiet
\* end: pydub ramps the amplitude linearly, here (2k-1)/(2n) at the frame's middle
RampDb(k, n) ==
    LET f == ((2 * k - 1) * 100) \div (2 * n)
    IN CASE f >= 89 -> -1
         [] f >= 71 -> -3
         [] f >= 50 -> -6
         [] f >= 35 -> -9
         [] f >= 25 -> -12
         [] f >= 12 -> -18
         [] OTHER -> -24

GainFrame(frame, gain) == [c \in DOMAIN frame |-> ApplyGainSample(frame[c], gain)]

\* AudioSegment.fade_in(ms), for a clip at least as long as the fade
fade_in(segment, ms) ==
    LET n == ms \div FrameMs
    IN [segment EXCEPT !.frames =
           [i \in DOMAIN segment.frames |->
               IF i <= n THEN GainFrame(segment.frames[i], RampDb(i, n))
               ELSE segment.frames[i]]]

\* AudioSegment.fade_out(ms), for a clip at least as long as the fade
fade_out(segment, ms) ==
    LET n == ms \div FrameMs
        len == Len(segment.frames)
    IN [segment EXCEPT !.frames =
           [i \in DOMAIN segment.frames |->
               IF i > len - n THEN GainFrame(segment.frames[i], RampDb(len - i + 1, n))
               ELSE segment.frames[i]]]

\* a join that lays the first frame of b over the last frame of a
ConcatOverlapped(a, b) ==
    [a EXCEPT !.frames = IF a.frames = <<>> \/ b.frames = <<>> THEN a.frames \o b.frames
                         ELSE a.frames \o Tail(b.frames)]

\* intro_music + speech + outro_music (AudioSegment.__add__ of clips of one format)
Concat(a, b) == [a EXCEPT !.frames = a.frames \o b.frames]

\* the peak clamp of _post_mix
clamp_peak(segment) ==
    IF max_dBFS(segment) > 0 THEN apply_gain(segment, 0 - max_dBFS(segment)) ELSE segment

(***************************************************************************)
(* Byte payloads, the values of response fields, and files.                 *)
(***************************************************************************)
Bytes(kind, clip) == [kind |-> kind, clip |-> clip]
NoneBytes == Bytes("none", NoClip)       \* audio_bytes = None
EmptyBytes == Bytes("empty", NoClip)     \* b""
JunkBytes == Bytes("junk", NoClip)       \* bytes that are no MP3
Mp3Bytes(clip) == Bytes("mp3", clip)     \* an MP3 that decodes to clip

Tone(rate, width, channels, n, frame) == Clip(rate, width, channels, [i \in 1..n |-> frame])

\* what the remote service's MP3 may decode to
SpeechTone == Tone(22050, 2, 1, 3, <<Smp(1, -20)>>)
SpeechShort == Tone(44100, 2, 1, 1, <<Smp(1, -3)>>)
SpeechSilent == Tone(44100, 2, 2, 2, <<Zero, Zero>>)
SpeechAnti == Tone(24000, 2, 2, 2, <<Smp(1, -6), Smp(-1, -6)>>)
SpeechClips == {SpeechTone, SpeechShort, SpeechSilent, SpeechAnti}

\* what the asset files may decode to (2 s each)
MusicTone == Tone(48000, 2, 2, 8, <<Smp(1, -10), Smp(1, -12)>>)
MusicSilent == Tone(44100, 1, 1, 8, <<Zero>>)
MusicClips == {MusicTone, MusicSilent}

Val(t, bytes) == [t |-> t, bytes |-> bytes]
NoVal == Val("none", NoneBytes)          \* the key is absent, None or ""
BadB64 == Val("bad", NoneBytes)          \* a string base64 cannot decode
B64(bytes) == Val("b64", bytes)          \* the base64 encoding of bytes
UrlVal == Val("url", NoneBytes)          \* a URL

Truthy(v) == v.t # "none"

\* base64.b64decode
B64Decodes(v) == v.t = "b64"
b64decode(v) == v.bytes

InlineVals(clips) ==
    {BadB64, B64(EmptyBytes), B64(JunkBytes)} \cup {B64(Mp3Bytes(c)) : c \in clips}

ValsFor(k, clips) == IF k \in Range(InlineKeys) THEN InlineVals(clips) ELSE {UrlVal}

EmptyMap == [k \in AllKeys |-> NoVal]

\* the mappings with at most n truthy fields
RECURSIVE Maps(_, _)
Maps(n, clips) ==
    IF n = 0 THEN {EmptyMap}
    ELSE LET prev == Maps(n - 1, clips)
         IN prev \cup UNION {{[m EXCEPT ![k] = v] : m \in prev, v \in ValsFor(k, clips)} : k \in AllKeys}

(***************************************************************************)
(* Synthesis responses: None, a dict, an SDK object, raw bytes.             *)
(***************************************************************************)
Resp(kind, to_dict, has_vars, map, attr, raw) ==
    [kind |-> kind, to_dict |-> to_dict, has_vars |-> has_vars,
     map |-> map, attr |-> attr, raw |-> raw]

NoResponse == Resp("unset", "absent", FALSE, EmptyMap, EmptyMap, NoneBytes)

\* None, a dict, raw bytes
PlainResponses(n, clips) ==
    {Resp("none", "absent", FALSE, EmptyMap, EmptyMap, NoneBytes)}
    \cup {Resp("dict", "absent", FALSE, m, EmptyMap, NoneBytes) : m \in Maps(n, clips)}
    \cup {Resp("bytes", "absent", FALSE, EmptyMap, EmptyMap, b) :
            b \in {EmptyBytes, JunkBytes} \cup {Mp3Bytes(c) : c \in clips}}

\* an SDK object: without to_dict or with one that raises, with or without
\* __dict__; or with a to_dict that gives a mapping of its own
ObjectResponses(n, clips) ==
    {Resp("object", t, h, EmptyMap, a, NoneBytes) :
            t \in {"absent", "raises"}, h \in BOOLEAN, a \in Maps(n, clips)}
    \cup UNION {{Resp("object", "ok", TRUE, m, a, NoneBytes) :
                    m \in Maps(i, clips), a \in Maps(n - i, clips)} : i \in 0..n}

\* _resp_to_mapping
resp_to_mapping(obj) ==
    CASE obj.kind = "none" -> EmptyMap
      [] obj.kind = "dict" -> obj.map
      [] obj.kind = "object" /\ obj.to_dict = "ok" -> obj.map
      [] obj.kind = "object" /\ obj.has_vars -> obj.attr
      [] OTHER -> EmptyMap

\* getattr(response, key, None)
getattr(response, key) == IF response.kind = "object" THEN response.attr[key] ELSE NoVal

\* resp_map.get(key) or getattr(response, key, None)
Lookup(response, key) ==
    LET v == resp_to_mapping(response)[key]
    IN IF Truthy(v) THEN v ELSE getattr(response, key)

\* the position in keys of the first key with a truthy value, 0 if there is none
FirstTruthy(response, keys) ==
    LET hits == {i \in DOMAIN keys : Truthy(Lookup(response, keys[i]))}
    IN IF hits = {} THEN 0 ELSE MinOf(hits)

Probe(found, key, error, bytes) == [found |-> found, key |-> key, error |-> error, bytes |-> bytes]

\* a loop that goes on to the next key when a value does not decode
RECURSIVE InlineFrom(_, _)
InlineFrom(response, i) ==
    IF i > Len(InlineKeys) THEN Probe(FALSE, "", FALSE, NoneBytes)
    ELSE LET v == Lookup(response, InlineKeys[i])
         IN IF Truthy(v) /\ B64Decodes(v) THEN Probe(TRUE, InlineKeys[i], FALSE, b64decode(v))
            ELSE InlineFrom(response, i + 1)

inline_probe_fallthrough(response) == InlineFrom(response, 1)

\* the loop over the names of base64-encoded audio
inline_probe(response) ==
    LET i == FirstTruthy(response, InlineKeys)
    IN IF i = 0 THEN Probe(FALSE, "", FALSE, NoneBytes)
       ELSE LET v == Lookup(response, InlineKeys[i])
            IN IF B64Decodes(v) THEN Probe(TRUE, InlineKeys[i], FALSE, b64decode(v))
               ELSE Probe(TRUE, InlineKeys[i], TRUE, NoneBytes)

\* a loop without its break: the last URL field wins
url_probe_last(response) ==
    LET hits == {i \in DOMAIN UrlKeys : Truthy(Lookup(response, UrlKeys[i]))}
    IN IF hits = {} THEN "" ELSE UrlKeys[MaxOf(hits)]

\* the loop over the URL fields: the key whose URL is fetched, "" if there is none
url_probe(response) ==
    LET i == FirstTruthy(response, UrlKeys)
    IN IF i = 0 THEN "" ELSE UrlKeys[i]

\* isinstance(response, (bytes, bytearray)): audio_bytes = bytes(response)
raw_bytes(response, audio_bytes) ==
    IF audio_bytes = NoneBytes /\ response.kind = "bytes" THEN response.raw ELSE audio_bytes

\* audio_bytes is None
NoPayloadNoneOnly(audio_bytes) == audio_bytes.kind = "none"

\* not audio_bytes
NoPayload(audio_bytes) == audio_bytes.kind \in {"none", "empty"}

\* the responses of the remote service: a service that gives any shape with up
\* to MaxFields keys and one voice clip, or a plain shape with up to one key and
\* any of the clips
RichResponses == PlainResponses(MaxFields, {SpeechTone}) \cup ObjectResponses(MaxFields, {SpeechTone})
BasicResponses == PlainResponses(1, SpeechClips)
ServiceResponses(service) == IF service = "rich" THEN RichResponses ELSE BasicResponses

\* what a GET of an audio URL may return as resp.content
DownloadBodies(service) ==
    {EmptyBytes, JunkBytes}
    \cup {Mp3Bytes(c) : c \in IF service = "rich" THEN {SpeechTone} ELSE SpeechClips}

(***************************************************************************)
(* Files and errors.                                                       *)
(***************************************************************************)
File(kind, clip) == [kind |-> kind, clip |-> clip]
Missing == File("missing", NoClip)       \* no file at the path
Corrupt == File("junk", NoClip)          \* a file ffmpeg cannot decode
Truncated == File("partial", NoClip)     \* opened for writing, not yet written
Audio(clip) == File("audio", clip)       \* an audio file that decodes to clip
OldPodcast == Audio(Tone(44100, 2, 2, 1, <<Smp(1, -14), Smp(1, -14)>>))

Err(kind, detail, attempt) == [kind |-> kind, detail |-> detail, attempt |-> attempt]
NoErr == Err("none", "", 0)

Outcome(status, error, result) == [status |-> status, error |-> error, result |-> result]
Pending == Outcome("pending", NoErr, "")

\* _load_music: the clip loaded or the error raised
Loaded(segment) == [ok |-> TRUE, kind |-> "", segment |-> segment]
LoadErr(kind) == [ok |-> FALSE, kind |-> kind, segment |-> NoClip]

load_music(file, fade_in_ms, fade_out_ms) ==
    IF file.kind = "missing" THEN LoadErr("MissingAsset")
    ELSE IF file.kind # "audio" THEN LoadErr("AssetDecode")
    ELSE LET s0 == file.clip
             s1 == IF fade_in_ms > 0 THEN fade_in(s0, fade_in_ms) ELSE s0
             s2 == IF fade_out_ms > 0 THEN fade_out(s1, fade_out_ms) ELSE s1
         IN Loaded(standardize_segment(s2))

(***************************************************************************)
(* State.                                                                  *)
(***************************************************************************)
\* the parts that take no step in a specification
NormUnused == [pc |-> "unused"]
SgUnused == [pc |-> "unused"]
WebUnused == [pc |-> "unused"]

VARIABLES
    \* the environment of one invocation
    introFile,      \* the file at intro_path
    outroFile,      \* the file at outro_path
    outFile,        \* the file at output_path
    service,        \* which responses the remote service gives
    caller,         \* "direct" (runnable.invoke) or "pipeline" (BlogToPodcastPipeline.run)
    blog_source,    \* the argument of BlogToPodcastPipeline.run
    \* BlogToPodcastPipeline.run
    runPc, cleaned, script_result, runOutcome,
    \* the retry wrapper around AudioGeneratorAgent._run
    pc, attempt, script, err, stepOutcome,
    \* the locals of _run and _synthesize
    response, audio_bytes, speech, intro_music, outro_music, composite, final_audio,
    \* what has been observed of the invocation
    genCalls,       \* text_to_speech.generate calls
    getCalls,       \* requests.get calls
    bodyRuns,       \* runs of the body of _run
    waits,          \* the delays slept between attempts
    genNow,         \* text_to_speech.generate calls of the current attempt
    gets,           \* the URL keys the current attempt sent a GET for
    getOutcome,     \* how the current attempt's GET ended, "" if there was none
    source,         \* where the current attempt took its payload from
    decoded,        \* the current attempt called AudioSegment.from_file on the payload
    stages,         \* the stages of the final mix the current attempt has run
    measured,       \* the array the final mix's loudness was measured on
    fileBefore,     \* the file at output_path when the current attempt began
    \* the parts of the program run on their own
    norm,           \* one call of _normalize_lufs: its arguments and its outcome
    synthLog,       \* the last call of _synthesize that ended: what the remote gave, what came out
    sg,             \* ScriptGeneratorAgent._run under its retry wrapper
    web             \* the requests to the web endpoint

partVars == <<norm, synthLog, sg, web>>
envVars == <<introFile, outroFile, service, caller, blog_source, partVars>>
pipeVars == <<runPc, cleaned, script_result, runOutcome>>
localVars == <<response, audio_bytes, speech, intro_music, outro_music, composite, final_audio>>
callVars == <<genCalls, getCalls, genNow, gets, getOutcome>>
mixVars == <<stages, measured>>
vars == <<introFile, outroFile, outFile, service, caller, blog_source,
          runPc, cleaned, script_result, runOutcome,
          pc, attempt, script, err, stepOutcome,
          response, audio_bytes, speech, intro_music, outro_music, composite, final_audio,
          genCalls, getCalls, bodyRuns, waits, genNow, gets, getOutcome, source, decoded,
          stages, measured, fileBefore, norm, synthLog, sg, web>>

AssetFiles == {Missing, Corrupt} \cup {Audio(c) : c \in MusicClips}

Init ==
    /\ introFile \in AssetFiles
    /\ outroFile \in AssetFiles
    /\ outFile \in {Missing, OldPodcast}
    /\ caller \in {"direct", "pipeline"}
    /\ service \in {"rich", "basic"}
    /\ IF caller = "direct"
       THEN /\ blog_source = ""
            /\ script \in {"none", "empty", "text"}
            /\ runPc = "unused"
       ELSE /\ blog_source \in {"", "blank", "url"}
            /\ script = "none"
            /\ runPc = "start"
    \* the service with many fields is met with the assets in place
    /\ service = "rich" =>
          /\ caller = "direct" /\ script = "text"
          /\ introFile = Audio(MusicTone) /\ outroFile = Audio(MusicTone)
          /\ outFile = Missing
    /\ cleaned = "" /\ script_result = "" /\ runOutcome = Pending
    /\ pc = "idle" /\ attempt = 0 /\ err = NoErr /\ stepOutcome = Pending
    /\ response = NoResponse /\ audio_bytes = NoneBytes
    /\ speech = NoClip /\ intro_music = NoClip /\ outro_music = NoClip
    /\ composite = NoClip /\ final_audio = NoClip
    /\ genCalls = 0 /\ getCalls = 0 /\ bodyRuns = 0 /\ waits = <<>>
    /\ genNow = 0 /\ gets = <<>> /\ getOutcome = "" /\ source = "" /\ decoded = FALSE
    /\ stages = <<>> /\ measured = <<>>
    /\ fileBefore = outFile
    /\ norm = NormUnused /\ synthLog = {} /\ sg = SgUnused /\ web = WebUnused

(***************************************************************************)
(* AudioGeneratorAgent._run under @retry(wait_fixed(2), stop_after_attempt *)
(* (2), reraise=True).                                                     *)
(***************************************************************************)
\* an exception leaves the body of _run
Raise(kind, detail) ==
    /\ err' = Err(kind, detail, attempt)
    /\ pc' = "raised"

\* self.audio_agent.runnable.invoke(inputs) called by itself
InvokeDirect ==
    /\ caller = "direct" /\ pc = "idle"
    /\ pc' = "body" /\ attempt' = 1
    /\ UNCHANGED <<envVars, pipeVars, outFile, script, err, stepOutcome, localVars,
                   callVars, bodyRuns, waits, source, decoded, mixVars, fileBefore>>

\* a guard that only catches an absent script
ScriptMissingNoneOnly(text) == text = "none"

\* if not script
ScriptMissing(text) == text \in {"none", "empty"}

\* the assets loaded before the speech is synthesized
StepAfterAssetsFirst(p) ==
    CASE p = "body" -> "load_intro"
      [] p = "load_intro" -> "load_outro"
      [] p = "load_outro" -> "generate"
      [] p = "norm_speech" -> "mix"
      [] p = "mix" -> "clamp"
      [] p = "clamp" -> "norm_final"
      [] p = "norm_final" -> "export"
      [] p = "exporting" -> "return"

\* the file exported before the outro is loaded
StepAfterExportEarly(p) ==
    CASE p = "body" -> "generate"
      [] p = "norm_speech" -> "load_intro"
      [] p = "load_intro" -> "export"
      [] p = "exporting" -> "load_outro"
      [] p = "load_outro" -> "mix"
      [] p = "mix" -> "clamp"
      [] p = "clamp" -> "norm_final"
      [] p = "norm_final" -> "return"

\* the loudness normalised before the peak is clamped
StepAfterNormalizeFirst(p) ==
    CASE p = "body" -> "generate"
      [] p = "norm_speech" -> "load_intro"
      [] p = "load_intro" -> "load_outro"
      [] p = "load_outro" -> "mix"
      [] p = "mix" -> "norm_final"
      [] p = "norm_final" -> "clamp"
      [] p = "clamp" -> "export"
      [] p = "exporting" -> "return"

\* the order of the statements of _run: the position that follows position p
StepAfter(p) ==
    CASE p = "body" -> "generate"              \* line 186, _synthesize
      [] p = "norm_speech" -> "load_intro"     \* lines 187-190
      [] p = "load_intro" -> "load_outro"      \* lines 191-194
      [] p = "load_outro" -> "mix"             \* line 197
      [] p = "mix" -> "clamp"                  \* line 198, _post_mix line 176
      [] p = "clamp" -> "norm_final"           \* _post_mix line 178
      [] p = "norm_final" -> "export"          \* lines 199-204
      [] p = "exporting" -> "return"           \* line 206

\* _run, lines 182-184: a new frame, and the guard on podcast_script
RunBegin ==
    /\ pc = "body"
    /\ bodyRuns' = bodyRuns + 1
    /\ fileBefore' = outFile
    /\ response' = NoResponse /\ audio_bytes' = NoneBytes
    /\ speech' = NoClip /\ intro_music' = NoClip /\ outro_music' = NoClip
    /\ composite' = NoClip /\ final_audio' = NoClip
    /\ genNow' = 0 /\ gets' = <<>> /\ getOutcome' = "" /\ source' = "" /\ decoded' = FALSE
    /\ stages' = <<>> /\ measured' = <<>>
    /\ IF ScriptMissing(script)
       THEN Raise("EmptyInput", "podcast_script")
       ELSE pc' = StepAfter("body") /\ err' = NoErr
    /\ UNCHANGED <<envVars, pipeVars, outFile, attempt, script, stepOutcome,
                   genCalls, getCalls, waits>>

\* _synthesize, lines 92-99: the call of the remote service
Generate ==
    /\ pc = "generate"
    /\ genCalls' = genCalls + 1
    /\ genNow' = genNow + 1
    /\ \/ /\ Raise("SynthesisApi", "generate")
          /\ UNCHANGED response
       \/ /\ \E r \in ServiceResponses(service) : response' = r
          /\ pc' = "inline"
          /\ UNCHANGED err
    /\ UNCHANGED <<envVars, pipeVars, outFile, attempt, script, stepOutcome,
                   audio_bytes, speech, intro_music, outro_music, composite, final_audio,
                   getCalls, gets, getOutcome, bodyRuns, waits, source, decoded, mixVars,
                   fileBefore>>

\* _synthesize, lines 103-131: the inline base64 fields
ResolveInline ==
    /\ pc = "inline"
    /\ LET p == inline_probe(response)
       IN IF p.error
          THEN /\ Raise("PayloadDecode", p.key)
               /\ UNCHANGED <<audio_bytes, source>>
          ELSE /\ audio_bytes' = p.bytes
               /\ source' = p.key
               /\ pc' = "url"
               /\ UNCHANGED err
    /\ UNCHANGED <<envVars, pipeVars, outFile, attempt, script, stepOutcome,
                   response, speech, intro_music, outro_music, composite, final_audio,
                   callVars, bodyRuns, waits, decoded, mixVars, fileBefore>>

\* the URL fields probed whatever the inline fields gave
UrlToFetchAlways(resp, bytes) == url_probe(resp)

\* the URL key whose URL is fetched given what the inline fields gave
UrlToFetch(resp, bytes) == IF bytes = NoneBytes THEN url_probe(resp) ELSE ""

\* how a GET may end: a network failure, an error status (raise_for_status), a body
GetOutcomes == {"network", "status", "ok"}

\* _synthesize, lines 133-145: the URL fields and the download
ResolveUrl ==
    /\ pc = "url"
    /\ LET key == UrlToFetch(response, audio_bytes)
       IN IF key = ""
          THEN /\ pc' = "raw"
               /\ UNCHANGED <<err, audio_bytes, source, getCalls, gets, getOutcome>>
          ELSE /\ getCalls' = getCalls + 1
               /\ gets' = Append(gets, key)
               /\ \E how \in GetOutcomes :
                     /\ getOutcome' = how
                     /\ IF how # "ok"
                        THEN /\ Raise("Download", key)
                             /\ UNCHANGED <<audio_bytes, source>>
                        ELSE /\ \E b \in DownloadBodies(service) : audio_bytes' = b
                             /\ source' = key
                             /\ pc' = "raw"
                             /\ UNCHANGED err
    /\ UNCHANGED <<envVars, pipeVars, outFile, attempt, script, stepOutcome,
                   response, speech, intro_music, outro_music, composite, final_audio,
                   genCalls, genNow, bodyRuns, waits, decoded, mixVars, fileBefore>>

\* _synthesize, lines 147-153: raw bytes, and the check that there is a payload
CheckPayload ==
    /\ pc = "raw"
    /\ LET b == raw_bytes(response, audio_bytes)
       IN /\ audio_bytes' = b
          /\ source' = IF b # audio_bytes THEN "raw" ELSE source
          /\ IF NoPayload(b)
             THEN Raise("NoAudioPayload", "")
             ELSE pc' = "decode" /\ UNCHANGED err
    /\ UNCHANGED <<envVars, pipeVars, outFile, attempt, script, stepOutcome,
                   response, speech, intro_music, outro_music, composite, final_audio,
                   callVars, bodyRuns, waits, decoded, mixVars, fileBefore>>

\* a decoding that also keeps the payload at the output path
DecodeSpeechToFile ==
    /\ pc = "decode"
    /\ decoded' = TRUE
    /\ IF audio_bytes.kind # "mp3"
       THEN /\ Raise("AudioParse", "")
            /\ UNCHANGED <<speech, outFile>>
       ELSE /\ speech' = standardize_segment(audio_bytes.clip)
            /\ outFile' = Audio(audio_bytes.clip)
            /\ pc' = "norm_speech"
            /\ UNCHANGED err
    /\ UNCHANGED <<envVars, pipeVars, attempt, script, stepOutcome,
                   response, audio_bytes, intro_music, outro_music, composite, final_audio,
                   callVars, bodyRuns, waits, source, mixVars, fileBefore>>

\* _synthesize, lines 155-160: decoding and standardization
DecodeSpeech ==
    /\ pc = "decode"
    /\ decoded' = TRUE
    /\ IF audio_bytes.kind # "mp3"
       THEN /\ Raise("AudioParse", "")
            /\ UNCHANGED speech
       ELSE /\ speech' = standardize_segment(audio_bytes.clip)
            /\ pc' = "norm_speech"
            /\ UNCHANGED err
    /\ UNCHANGED <<envVars, pipeVars, outFile, attempt, script, stepOutcome,
                   response, audio_bytes, intro_music, outro_music, composite, final_audio,
                   callVars, bodyRuns, waits, source, mixVars, fileBefore>>

\* _run, line 186: _synthesize has returned (its locals are gone) and the
\* speech is normalised to the speech target
NormSpeech ==
    /\ pc = "norm_speech"
    /\ response' = NoResponse /\ audio_bytes' = NoneBytes
    /\ LET n == normalize_lufs(speech, target_lufs + speech_delta_db)
       IN IF n.ok
          THEN speech' = n.segment /\ pc' = StepAfter("norm_speech") /\ UNCHANGED err
          ELSE Raise("Meter", "speech") /\ UNCHANGED speech
    /\ UNCHANGED <<envVars, pipeVars, outFile, attempt, script, stepOutcome,
                   intro_music, outro_music, composite, final_audio,
                   callVars, bodyRuns, waits, source, decoded, mixVars, fileBefore>>

\* _run, lines 187-190: the intro loaded (fade_in=2000) and normalised to the music target
LoadIntro ==
    /\ pc = "load_intro"
    /\ LET m == load_music(introFile, IntroFadeIn, 0)
           n == normalize_lufs(m.segment, target_lufs + music_delta_db)
       IN IF ~m.ok THEN Raise(m.kind, "intro") /\ UNCHANGED intro_music
          ELSE IF ~n.ok THEN Raise("Meter", "intro") /\ UNCHANGED intro_music
          ELSE intro_music' = n.segment /\ pc' = StepAfter("load_intro") /\ UNCHANGED err
    /\ UNCHANGED <<envVars, pipeVars, outFile, attempt, script, stepOutcome,
                   response, audio_bytes, speech, outro_music, composite, final_audio,
                   callVars, bodyRuns, waits, source, decoded, mixVars, fileBefore>>

\* _run, lines 191-194: the outro loaded (fade_out=1500) and normalised to the music target
LoadOutro ==
    /\ pc = "load_outro"
    /\ LET m == load_music(outroFile, 0, OutroFadeOut)
           n == normalize_lufs(m.segment, target_lufs + music_delta_db)
       IN IF ~m.ok THEN Raise(m.kind, "outro") /\ UNCHANGED outro_music
          ELSE IF ~n.ok THEN Raise("Meter", "outro") /\ UNCHANGED outro_music
          ELSE outro_music' = n.segment /\ pc' = StepAfter("load_outro") /\ UNCHANGED err
    /\ UNCHANGED <<envVars, pipeVars, outFile, attempt, script, stepOutcome,
                   response, audio_bytes, speech, intro_music, composite, final_audio,
                   callVars, bodyRuns, waits, source, decoded, mixVars, fileBefore>>

\* _run, line 197: composite = intro_music + speech + outro_music
Mix ==
    /\ pc = "mix"
    /\ composite' = Concat(Concat(intro_music, speech), outro_music)
    /\ stages' = Append(stages, "concat")
    /\ pc' = StepAfter("mix")
    /\ UNCHANGED <<envVars, pipeVars, outFile, attempt, script, err, stepOutcome,
                   response, audio_bytes, speech, intro_music, outro_music, final_audio,
                   callVars, bodyRuns, waits, source, decoded, measured, fileBefore>>

\* _post_mix, lines 176-177: the peak clamp
PostMixClamp ==
    /\ pc = "clamp"
    /\ final_audio' = clamp_peak(composite)
    /\ stages' = Append(stages, "clamp")
    /\ pc' = StepAfter("clamp")
    /\ UNCHANGED <<envVars, pipeVars, outFile, attempt, script, err, stepOutcome,
                   response, audio_bytes, speech, intro_music, outro_music, composite,
                   callVars, bodyRuns, waits, source, decoded, measured, fileBefore>>

\* _post_mix, line 178: the loudness normalization to the overall target
PostMixNormalize ==
    /\ pc = "norm_final"
    /\ LET n == normalize_lufs(final_audio, target_lufs)
       IN /\ measured' = n.measured
          /\ stages' = Append(stages, "normalize")
          /\ IF n.ok
             THEN final_audio' = n.segment /\ pc' = StepAfter("norm_final") /\ UNCHANGED err
             ELSE Raise("Meter", "mix") /\ UNCHANGED final_audio
    /\ UNCHANGED <<envVars, pipeVars, outFile, attempt, script, stepOutcome,
                   response, audio_bytes, speech, intro_music, outro_music, composite,
                   callVars, bodyRuns, waits, source, decoded, fileBefore>>

\* final_audio.export, lines 199-204: the output file is opened for writing
ExportOpen ==
    /\ pc = "export"
    /\ outFile' = Truncated
    /\ stages' = Append(stages, "export")
    /\ pc' = "exporting"
    /\ UNCHANGED <<envVars, pipeVars, attempt, script, err, stepOutcome, localVars,
                   callVars, bodyRuns, waits, source, decoded, measured, fileBefore>>

\* final_audio.export, lines 199-204: the encoder ends, well or not
ExportFinish ==
    /\ pc = "exporting"
    /\ \/ /\ outFile' = Audio(final_audio)
          /\ pc' = StepAfter("exporting")
          /\ UNCHANGED err
       \/ /\ Raise("Encode", "export")
          /\ UNCHANGED outFile
    /\ UNCHANGED <<envVars, pipeVars, attempt, script, stepOutcome, localVars,
                   callVars, bodyRuns, waits, source, decoded, mixVars, fileBefore>>

\* _run, lines 205-206: the result names the output path; the wrapper returns it
Return ==
    /\ pc = "return"
    /\ stepOutcome' = Outcome("returned", NoErr, "final_audio_path")
    /\ pc' = "done"
    /\ UNCHANGED <<envVars, pipeVars, outFile, attempt, script, err, localVars,
                   callVars, bodyRuns, waits, source, decoded, mixVars, fileBefore>>

\* a wrapper that never tries again
ShouldStopAtOnce(n) == n >= 1

\* stop_after_attempt(2): whether the wrapper gives up after this attempt
ShouldStop(n) == n >= MaxAttempts

\* a wrapper that raises its own error around the last one (reraise=False)
ReraisedWrapped(last) == Err("RetryError", last.kind, last.attempt)

\* the error the wrapper re-raises once it gives up (reraise=True)
Reraised(last) == last

\* @retry, line 180: an attempt has raised and another one follows after the wait
RetryWait ==
    /\ pc = "raised" /\ ~ShouldStop(attempt)
    /\ waits' = Append(waits, RetryDelay)
    /\ attempt' = attempt + 1
    /\ pc' = "body"
    /\ UNCHANGED <<envVars, pipeVars, outFile, script, err, stepOutcome, localVars,
                   callVars, bodyRuns, source, decoded, mixVars, fileBefore>>

\* @retry, line 180: the last attempt has raised
Reraise ==
    /\ pc = "raised" /\ ShouldStop(attempt)
    /\ stepOutcome' = Outcome("raised", Reraised(err), "")
    /\ pc' = "done"
    /\ UNCHANGED <<envVars, pipeVars, outFile, attempt, script, err, localVars,
                   callVars, bodyRuns, waits, source, decoded, mixVars, fileBefore>>

(***************************************************************************)
(* BlogToPodcastPipeline.run.                                              *)
(***************************************************************************)
stepVars == <<pc, attempt, script, err, stepOutcome>>
seenVars == <<genCalls, getCalls, bodyRuns, waits, genNow, gets, getOutcome, source, decoded,
              stages, measured, fileBefore>>

\* run, lines 42-45: the guard on blog_source
PipelineStart ==
    /\ caller = "pipeline" /\ runPc = "start"
    /\ IF blog_source = ""
       THEN /\ runOutcome' = Outcome("raised", Err("NoSource", "blog_source", 0), "")
            /\ runPc' = "done"
       ELSE runPc' = "clean" /\ UNCHANGED runOutcome
    /\ UNCHANGED <<envVars, outFile, cleaned, script_result, stepVars, localVars, seenVars>>

\* run, lines 46-47: the blog cleaner (its own three attempts included) returns
\* the cleaned text or raises
PipelineClean ==
    /\ runPc = "clean"
    /\ \/ /\ blog_source = "blank"
          /\ cleaned' = ""
          /\ runPc' = "script"
          /\ UNCHANGED runOutcome
       \/ /\ blog_source = "url"
          /\ \E text \in {"", "text"} : cleaned' = text
          /\ runPc' = "script"
          /\ UNCHANGED runOutcome
       \/ /\ blog_source = "url"
          /\ runOutcome' = Outcome("raised", Err("Fetch", "blog_source", 0), "")
          /\ runPc' = "done"
          /\ UNCHANGED cleaned
    /\ UNCHANGED <<envVars, outFile, script_result, stepVars, localVars, seenVars>>

\* run, lines 49-54: the script generator returns a script (from the language
\* model or its fallback) or raises on an empty cleaned text
PipelineScript ==
    /\ runPc = "script"
    /\ IF cleaned = ""
       THEN /\ runOutcome' = Outcome("raised", Err("NoCleanText", "clean_blog_text", 0), "")
            /\ runPc' = "done"
            /\ UNCHANGED script_result
       ELSE /\ script_result' = "text"
            /\ runPc' = "audio"
            /\ UNCHANGED runOutcome
    /\ UNCHANGED <<envVars, outFile, cleaned, stepVars, localVars, seenVars>>

\* run, line 57: self.audio_agent.runnable.invoke(script_result)
PipelineAudio ==
    /\ runPc = "audio" /\ pc = "idle"
    /\ script' = script_result
    /\ pc' = "body" /\ attempt' = 1
    /\ UNCHANGED <<envVars, pipeVars, outFile, err, stepOutcome, localVars, seenVars>>

\* what run lets out when the audio step raises (except: log, then raise)
Propagated(error) == error

\* run, lines 56-67: the audio step has ended; its error is raised again or the
\* merged result is returned
PipelineFinish ==
    /\ runPc = "audio" /\ pc = "done"
    /\ runOutcome' = IF stepOutcome.status = "raised"
                     THEN Outcome("raised", Propagated(stepOutcome.error), "")
                     ELSE Outcome("returned", NoErr, stepOutcome.result)
    /\ runPc' = "done"
    /\ UNCHANGED <<envVars, outFile, cleaned, script_result, stepVars, localVars, seenVars>>

Next ==
    \/ InvokeDirect \/ RunBegin \/ Generate \/ ResolveInline \/ ResolveUrl
    \/ CheckPayload \/ DecodeSpeech \/ NormSpeech \/ LoadIntro \/ LoadOutro
    \/ Mix \/ PostMixClamp \/ PostMixNormalize \/ ExportOpen \/ ExportFinish
    \/ Return \/ RetryWait \/ Reraise
    \/ PipelineStart \/ PipelineClean \/ PipelineScript \/ PipelineAudio \/ PipelineFinish

Spec == Init /\ [][Next]_vars

(***************************************************************************)
(* The parts run on their own.  In each of these specifications the audio  *)
(* step and the pipeline of Spec are at rest unless the part uses them.    *)
(***************************************************************************)
AtRest ==
    /\ introFile = Audio(MusicTone) /\ outroFile = Audio(MusicTone)
    /\ blog_source = "" /\ runPc = "unused"
    /\ cleaned = "" /\ script_result = "" /\ runOutcome = Pending
    /\ pc = "idle" /\ attempt = 0 /\ err = NoErr /\ stepOutcome = Pending
    /\ response = NoResponse /\ audio_bytes = NoneBytes
    /\ speech = NoClip /\ intro_music = NoClip /\ outro_music = NoClip
    /\ composite = NoClip /\ final_audio = NoClip
    /\ genCalls = 0 /\ getCalls = 0 /\ bodyRuns = 0 /\ waits = <<>>
    /\ genNow = 0 /\ gets = <<>> /\ getOutcome = "" /\ source = "" /\ decoded = FALSE
    /\ stages = <<>> /\ measured = <<>>
    /\ fileBefore = outFile

(***************************************************************************)
(* _normalize_lufs called on its own, on any clip and with any of the      *)
(* targets the program uses.                                               *)
(***************************************************************************)
\* the samples of the clips: silence, a loud sample of either sign, a quiet one
NormSamples == {Zero, Smp(1, -6), Smp(-1, -6), Smp(1, -20)}

NormClips ==
    UNION {{Clip(StdFrameRate, StdSampleWidth, ch, f) :
                f \in [1..n -> [1..ch -> NormSamples]]} :
           n \in 1..MaxFrames, ch \in 1..StdChannels}

\* the targets of lines 186-193 and 178
NormTargets == {target_lufs + speech_delta_db, target_lufs + music_delta_db, target_lufs}

NormInit ==
    /\ outFile = Missing /\ AtRest /\ caller = "normalize" /\ service = "basic"
    /\ script = "none"
    /\ synthLog = {} /\ sg = SgUnused /\ web = WebUnused
    /\ \E c \in NormClips, t \in NormTargets :
          norm = [pc |-> "call", segment |-> c, target |-> t, result |-> NormErr(<<>>)]

\* _normalize_lufs(segment, target_lufs), lines 44-51
NormalizeCall ==
    /\ norm.pc = "call"
    /\ norm' = [norm EXCEPT !.pc = "done",
                            !.result = normalize_lufs(norm.segment, norm.target)]
    /\ UNCHANGED <<introFile, outroFile, outFile, service, caller, blog_source,
                   pipeVars, pc, attempt, script, err, stepOutcome, localVars,
                   callVars, bodyRuns, waits, source, decoded, mixVars, fileBefore,
                   synthLog, sg, web>>

NormNext == NormalizeCall

NormSpec == NormInit /\ [][NormNext]_vars

(***************************************************************************)
(* _synthesize called on its own, SynthCalls times in a row, by a caller   *)
(* that keeps what the remote side gave to the last call and what that     *)
(* call gave back.                                                         *)
(***************************************************************************)
SynthInit ==
    /\ outFile \in {Missing, OldPodcast} /\ AtRest
    /\ caller = "synthesize" /\ service = "basic" /\ script = "text"
    /\ norm = NormUnused /\ synthLog = {} /\ sg = SgUnused /\ web = WebUnused

\* what the remote side gave to the call that ends: the response of generate
\* (none if generate raised), how the GET ended and the body it returned
SynthGiven ==
    [response |-> response, get |-> getOutcome,
     body |-> IF getOutcome = "ok" THEN audio_bytes ELSE NoneBytes]

\* what the call that ends gives back: the clip returned or the error raised
SynthOut == [speech |-> speech, error |-> err]

\* self._synthesize(script), line 90
SynthesizeCall ==
    /\ caller = "synthesize" /\ pc = "idle"
    /\ genCalls < SynthCalls
    /\ pc' = "generate"
    /\ UNCHANGED <<introFile, outroFile, outFile, service, caller, blog_source,
                   pipeVars, attempt, script, err, stepOutcome, localVars,
                   callVars, bodyRuns, waits, source, decoded, mixVars, fileBefore,
                   partVars>>

\* _synthesize returns (line 160) or raises: its frame is gone
SynthesizeEnd ==
    /\ caller = "synthesize" /\ pc \in {"norm_speech", "raised"}
    /\ synthLog' = {[given |-> SynthGiven, out |-> SynthOut]}
    /\ pc' = "idle" /\ err' = NoErr
    /\ response' = NoResponse /\ audio_bytes' = NoneBytes /\ speech' = NoClip
    /\ genNow' = 0 /\ gets' = <<>> /\ getOutcome' = "" /\ source' = "" /\ decoded' = FALSE
    /\ UNCHANGED <<introFile, outroFile, outFile, service, caller, blog_source,
                   pipeVars, attempt, script, stepOutcome,
                   intro_music, outro_music, composite, final_audio,
                   genCalls, getCalls, bodyRuns, waits, mixVars, fileBefore,
                   norm, sg, web>>

SynthNext ==
    \/ SynthesizeCall \/ Generate \/ ResolveInline \/ ResolveUrl
    \/ CheckPayload \/ DecodeSpeech \/ SynthesizeEnd

SynthSpec == SynthInit /\ [][SynthNext]_vars

(***************************************************************************)
(* The web endpoint (web/app.py): every POST /api/convert runs             *)
(* pipeline.run of the one module-level pipeline in a worker thread, so    *)
(* the conversions of several requests interleave; they share the file at  *)
(* OUTPUT_PATH, the default output_path of the audio step.  A conversion   *)
(* is followed up to its export, the only steps that touch the file.       *)
(***************************************************************************)
Requests == 1..NumRequests

\* the final mix made from the script of request r
MixOf(r) ==
    Tone(StdFrameRate, StdSampleWidth, StdChannels, r + 1,
         <<Smp(1, target_lufs - r), Smp(1, target_lufs - r)>>)

\* out_f.write(output.read()) through a descriptor opened 'wb+' when the
\* export began: the bytes go to the start of the file, over what another
\* writer has put there since
Overwrite(file, clip) ==
    IF file.kind # "audio" THEN Audio(clip)
    ELSE Audio([clip EXCEPT !.frames =
                   [i \in 1..MaxOf({Len(clip.frames), Len(file.clip.frames)}) |->
                       IF i <= Len(clip.frames) THEN clip.frames[i] ELSE file.clip.frames[i]]])

NotFound == File("404", NoClip)

\* a download that refuses a file that is being written
ServedWhenComplete(file) == IF file.kind \in {"missing", "partial"} THEN NotFound ELSE file

\* download_final: 404 without a file at OUTPUT_PATH, else the file that is there
Served(file) == IF file.kind = "missing" THEN NotFound ELSE file

WebInit ==
    /\ outFile \in {Missing, OldPodcast} /\ AtRest
    /\ caller = "web" /\ service = "basic" /\ script = "none"
    /\ norm = NormUnused /\ synthLog = {} /\ sg = SgUnused
    /\ web \in [Requests -> {[pc |-> "new", source |-> src, attempt |-> 0, served |-> <<>>] :
                                src \in {"", "blog"}}]

webRest ==
    <<introFile, outroFile, service, caller, blog_source,
      pipeVars, pc, attempt, script, err, stepOutcome, localVars,
      callVars, bodyRuns, waits, source, decoded, mixVars, fileBefore,
      norm, synthLog, sg>>

\* convert, lines 270-276: the guard on the source, then pipeline.run handed
\* to the thread pool
Convert(r) ==
    /\ web[r].pc = "new"
    /\ web' = [web EXCEPT ![r].pc = IF web[r].source = "" THEN "rejected" ELSE "running",
                          ![r].attempt = IF web[r].source = "" THEN 0 ELSE 1]
    /\ UNCHANGED <<outFile, webRest>>

\* an attempt of the audio step of request r raises: the next attempt, or the
\* error becomes the response 500 (convert, lines 277-278)
AttemptRaises(r) ==
    [web EXCEPT ![r].pc = IF ShouldStop(web[r].attempt) THEN "failed" ELSE "running",
                ![r].attempt = IF ShouldStop(web[r].attempt) THEN @ ELSE @ + 1]

\* pipeline.run up to line 198 of the audio step: cleaning, script, synthesis,
\* loading and mixing touch nothing shared; they raise or reach the export
PipelineWork(r) ==
    /\ web[r].pc = "running"
    /\ \/ web' = [web EXCEPT ![r].pc = "export"]
       \/ web' = AttemptRaises(r)
    /\ UNCHANGED <<outFile, webRest>>

\* final_audio.export, lines 199-204, in the thread of request r: the file at
\* the shared path is opened for writing
WebExportOpen(r) ==
    /\ web[r].pc = "export"
    /\ outFile' = Truncated
    /\ web' = [web EXCEPT ![r].pc = "exporting"]
    /\ UNCHANGED webRest

\* final_audio.export, lines 199-204: the encoder ends and the mix is written,
\* or the encoder fails
WebExportFinish(r) ==
    /\ web[r].pc = "exporting"
    /\ \/ /\ outFile' = Overwrite(outFile, MixOf(r))
          /\ web' = [web EXCEPT ![r].pc = "exported"]
       \/ /\ web' = AttemptRaises(r)
          /\ UNCHANGED outFile
    /\ UNCHANGED webRest

\* convert, lines 280-286: the response 200 with the script and the audio_url
ConvertReturn(r) ==
    /\ web[r].pc = "exported"
    /\ web' = [web EXCEPT ![r].pc = "succeeded"]
    /\ UNCHANGED <<outFile, webRest>>

\* download_final, lines 289-300: the client of request r follows its audio_url
Download(r) ==
    /\ web[r].pc = "succeeded"
    /\ Len(web[r].served) < MaxDownloads
    /\ web' = [web EXCEPT ![r].served = Append(@, Served(outFile))]
    /\ UNCHANGED <<outFile, webRest>>

WebNext ==
    \E r \in Requests :
        \/ Convert(r) \/ PipelineWork(r) \/ WebExportOpen(r) \/ WebExportFinish(r)
        \/ ConvertReturn(r) \/ Download(r)

WebSpec == WebInit /\ [][WebNext]_vars

(***************************************************************************)
(* ScriptGeneratorAgent._run (agents/script_generator.py) under            *)
(* @retry(wait_fixed(2), stop_after_attempt(3), reraise=True), with        *)
(* GroqClient.run_groq (core/groq_client.py), and the hand-over of its     *)
(* script to the audio step by BlogToPodcastPipeline.run.                  *)
(*                                                                         *)
(* A text is a sequence of characters: " " is white space, "a" any other   *)
(* character, "<html" the opening of an HTML page, "[" the fixed wording   *)
(* of the fallback script.                                                 *)
(***************************************************************************)
Chars == {" ", "a", "<html"}
Texts == UNION {[1..n -> Chars] : n \in 0..MaxChars}
NoneValue == <<"None">>

\* not x, for a text or None
IsFalsy(x) == x = NoneValue \/ x = <<>>

RECURSIVE lstrip(_)
lstrip(t) == IF t # <<>> /\ Head(t) = " " THEN lstrip(Tail(t)) ELSE t

RECURSIVE rstrip(_)
rstrip(t) == IF t # <<>> /\ t[Len(t)] = " " THEN rstrip(SubSeq(t, 1, Len(t) - 1)) ELSE t

strip(t) == rstrip(lstrip(t))

\* what the language-model service may do: raise a GroqError, raise another
\* error, answer without choices, answer with a content (a text or None)
Reply(kind, content) == [kind |-> kind, content |-> content]
NoReply == Reply("none", NoneValue)
LlmReplies ==
    {Reply(k, NoneValue) : k \in {"api_error", "other_error", "no_choices"}}
    \cup {Reply("content", c) : c \in Texts \cup {NoneValue}}

\* GroqClient.run_groq: the text returned or the error raised
GroqOk(text) == [ok |-> TRUE, text |-> text, error |-> ""]
GroqErr(error) == [ok |-> FALSE, text |-> NoneValue, error |-> error]

run_groq(reply) ==
    CASE reply.kind = "api_error" -> GroqErr("GroqError")
      [] reply.kind = "other_error" -> GroqErr("Exception")
      [] reply.kind = "no_choices" -> GroqErr("ValueError")
      [] IsFalsy(reply.content) -> GroqErr("ValueError")
      [] OTHER -> GroqOk(strip(reply.content))

\* _ensure_valid_script raises
IsHtmlPage(text) == lstrip(text) # <<>> /\ Head(lstrip(text)) = "<html"

\* a check of the returned script that only looks for an HTML page
ScriptRejectedHtmlOnly(text) == IsHtmlPage(text)

\* lines 60-62: the script is empty or an HTML page
ScriptRejected(text) == IsFalsy(text) \/ IsHtmlPage(text)

\* _build_fallback_script: a fixed notice for a blank text, else the fixed
\* wording around the text
build_fallback_script(clean_blog_text) ==
    LET trimmed == strip(clean_blog_text)
    IN IF trimmed = <<>> THEN <<"[", "a">>
       ELSE strip(<<" ", "[">> \o trimmed \o <<"[", " ">>)

\* what the audio step sees of a script
ScriptSeen(text) ==
    IF text = NoneValue THEN "none" ELSE IF text = <<>> THEN "empty" ELSE "text"

ScriptInit ==
    /\ outFile = Missing /\ AtRest
    /\ caller = "script" /\ service = "basic" /\ script = "none"
    /\ norm = NormUnused /\ synthLog = {} /\ web = WebUnused
    /\ \E text \in Texts \cup {NoneValue} :
          sg = [pc |-> "idle", clean |-> text, attempt |-> 0, waits |-> <<>>,
                reply |-> NoReply, llmCalls |-> 0, script |-> NoneValue,
                fallback |-> FALSE, outcome |-> "pending"]

sgRest ==
    <<introFile, outroFile, outFile, service, caller, blog_source,
      pipeVars, pc, attempt, script, err, stepOutcome, localVars,
      callVars, bodyRuns, waits, source, decoded, mixVars, fileBefore,
      norm, synthLog, web>>

\* pipeline.run, line 49: self.script_agent.runnable.invoke(cleaned)
SgInvoke ==
    /\ sg.pc = "idle"
    /\ sg' = [sg EXCEPT !.pc = "body", !.attempt = 1]
    /\ UNCHANGED sgRest

\* _run, lines 53-57: the guard on clean_blog_text
SgBegin ==
    /\ sg.pc = "body"
    /\ sg' = [sg EXCEPT !.pc = IF IsFalsy(sg.clean) THEN "raised" ELSE "groq",
                        !.reply = NoReply, !.script = NoneValue]
    /\ UNCHANGED sgRest

\* _run, line 59: self.groq_client.run_groq(SYSTEM_PROMPT, prompt); an
\* exception is caught at line 65
SgCallGroq ==
    /\ sg.pc = "groq"
    /\ \E reply \in LlmReplies :
          LET r == run_groq(reply)
          IN sg' = [sg EXCEPT !.reply = reply, !.llmCalls = @ + 1,
                              !.script = r.text,
                              !.pc = IF r.ok THEN "check" ELSE "fallback"]
    /\ UNCHANGED sgRest

\* _run, lines 60-64: the checks of the script, then the return of script.strip()
SgCheck ==
    /\ sg.pc = "check"
    /\ sg' = IF ScriptRejected(sg.script)
             THEN [sg EXCEPT !.pc = "fallback"]
             ELSE [sg EXCEPT !.pc = "done", !.outcome = "returned", !.script = strip(@)]
    /\ UNCHANGED sgRest

\* _run, lines 65-68: the fallback writer
SgFallback ==
    /\ sg.pc = "fallback"
    /\ sg' = [sg EXCEPT !.pc = "done", !.outcome = "returned", !.fallback = TRUE,
                        !.script = build_fallback_script(sg.clean)]
    /\ UNCHANGED sgRest

\* @retry, line 51: an attempt has raised and another one follows after the wait
SgRetryWait ==
    /\ sg.pc = "raised" /\ sg.attempt < SgMaxAttempts
    /\ sg' = [sg EXCEPT !.pc = "body", !.attempt = @ + 1, !.waits = Append(@, SgRetryDelay)]
    /\ UNCHANGED sgRest

\* @retry, line 51: the last attempt has raised; pipeline.run ends with its error
SgReraise ==
    /\ sg.pc = "raised" /\ sg.attempt >= SgMaxAttempts
    /\ sg' = [sg EXCEPT !.pc = "done", !.outcome = "raised"]
    /\ UNCHANGED sgRest

\* pipeline.run, lines 50-57: the audio step is invoked with the script
SgHandOver ==
    /\ sg.pc = "done" /\ sg.outcome = "returned" /\ pc = "idle"
    /\ script' = ScriptSeen(sg.script)
    /\ pc' = "body" /\ attempt' = 1
    /\ UNCHANGED <<envVars, pipeVars, outFile, err, stepOutcome, localVars, seenVars>>

ScriptNext ==
    \/ SgInvoke \/ SgBegin \/ SgCallGroq \/ SgCheck \/ SgFallback
    \/ SgRetryWait \/ SgReraise \/ SgHandOver \/ RunBegin

ScriptSpec == ScriptInit /\ [][ScriptNext]_vars

(***************************************************************************)
(* Claims.                                                                 *)
(***************************************************************************)
MissingIntroRaised == pc = "raised" /\ err.kind = "MissingAsset" /\ err.detail = "intro"

\* C1 as stated: with the intro asset missing, the missing-asset error of the
\* audio step is raised before any text_to_speech.generate call is made.
C1_NoGenerateBeforeMissingIntro ==
    (introFile = Missing /\ MissingIntroRaised) => genCalls = 0

\* C1 as amended: the missing-asset error for the intro is raised only for a
\* missing intro file, after the attempt has called text_to_speech.generate
\* once and has synthesized its speech; every attempt so far has made its call;
\* and with the intro missing no attempt gets past the loading of the intro.
C1_MissingIntroAfterGenerate ==
    /\ MissingIntroRaised =>
          /\ introFile = Missing
          /\ genNow = 1 /\ genCalls = attempt
          /\ decoded /\ speech # NoClip
    /\ introFile = Missing =>
          /\ pc \notin {"load_outro", "mix", "clamp", "norm_final", "export", "exporting", "return"}
          /\ stepOutcome.status # "returned"

C1_Witness == MissingIntroRaised /\ attempt = MaxAttempts /\ genCalls = MaxAttempts

StepEndedWithMissingAsset ==
    stepOutcome.status = "raised" /\ stepOutcome.error.kind = "MissingAsset"

\* C2 as stated: a missing intro or outro asset is not retried: the body of the
\* step has run exactly once and the synthesis service was contacted at most once.
C2_MissingAssetNotRetried ==
    StepEndedWithMissingAsset => (bodyRuns = 1 /\ genCalls <= 1)

\* C2 as amended: a missing asset is retried like any other error: when the
\* step ends with the missing-asset error, its body has run MaxAttempts times
\* with one wait of RetryDelay between them, the error is the one of the last
\* attempt, and the synthesis service has been contacted once in each attempt.
C2_MissingAssetRetried ==
    StepEndedWithMissingAsset =>
        /\ bodyRuns = MaxAttempts
        /\ waits = <<RetryDelay>>
        /\ stepOutcome.error.attempt = MaxAttempts
        /\ genCalls = MaxAttempts

C2_Witness == StepEndedWithMissingAsset /\ stepOutcome.error.detail = "outro" /\ bodyRuns = 2

\* C3: with the script empty or absent every attempt of the audio step raises
\* the empty-input error: text_to_speech.generate is never called, no GET is
\* sent, nothing is decoded and the output file is not written.
C3_EmptyScriptNoService ==
    (script \in {"none", "empty"} /\ pc \notin {"idle"}) =>
        /\ pc \in {"body", "raised", "done"}
        /\ genCalls = 0 /\ getCalls = 0 /\ ~decoded
        /\ outFile = fileBefore /\ outFile.kind # "partial" /\ stages = <<>>
        /\ pc = "raised" => (err.kind = "EmptyInput" /\ err.attempt = attempt)
        /\ pc = "done" =>
              /\ stepOutcome = Outcome("raised", Err("EmptyInput", "podcast_script", MaxAttempts), "")
              /\ bodyRuns = MaxAttempts

C3_Witness ==
    script = "empty" /\ stepOutcome.status = "raised" /\ bodyRuns = 2 /\ outFile = OldPodcast

\* a response is at hand: from the return of generate to the end of _synthesize,
\* and after an error of _synthesize until the next attempt is due
HasResponse == response.kind # "unset" /\ pc # "body"

\* the response holds a non-empty value under key, as a mapping entry or as an attribute
Holds(key) == Truthy(resp_to_mapping(response)[key]) \/ Truthy(getattr(response, key))

\* the value the response holds under key: the mapping entry, or else the attribute
Held(key) ==
    IF Truthy(resp_to_mapping(response)[key]) THEN resp_to_mapping(response)[key]
    ELSE getattr(response, key)

\* key is the first of keys under which the response holds a non-empty value
IsFirstHeld(keys, i) == Holds(keys[i]) /\ \A j \in 1..(i - 1) : ~Holds(keys[j])

SomeInline == \E i \in DOMAIN InlineKeys : Holds(InlineKeys[i])
SomeUrl == \E i \in DOMAIN UrlKeys : Holds(UrlKeys[i])

\* the payload has been resolved, or its resolution has failed
Resolved == HasResponse /\ pc \notin {"inline", "url"}

\* C4: when a known inline key holds a non-empty value, the payload comes from
\* the first such key in the listed order (the decoded bytes, or the decode
\* error naming that key) and no GET is sent, whatever the URL fields hold; a
\* GET is sent only when no inline key holds a non-empty value.
C4_InlineWinsInOrder ==
    HasResponse =>
        /\ \A i \in DOMAIN InlineKeys :
              (IsFirstHeld(InlineKeys, i) /\ pc # "inline") =>
                  /\ gets = <<>> /\ getOutcome = ""
                  /\ IF Held(InlineKeys[i]).t = "b64"
                     THEN /\ source = InlineKeys[i]
                          /\ audio_bytes = Held(InlineKeys[i]).bytes
                          /\ err.kind \notin {"PayloadDecode", "Download"}
                     ELSE /\ err = Err("PayloadDecode", InlineKeys[i], attempt)
                          /\ audio_bytes = NoneBytes
        /\ gets # <<>> => ~SomeInline

C4_Witness ==
    /\ pc = "decode" /\ gets = <<>>
    /\ response.kind = "dict"
    /\ ~Holds("encoded_audio") /\ Holds("encodedAudio") /\ Holds("audio_file")
    /\ source = "encodedAudio" /\ audio_bytes = Mp3Bytes(SpeechTone)

\* C5: when the first non-empty inline value does not decode as base64, the
\* attempt fails at once with the payload-decode error naming that key: no
\* later inline key is used, no GET is sent, the raw-bytes check and the
\* decoding of audio are not reached.
C5_DecodeFailureIsFatal ==
    \A i \in DOMAIN InlineKeys :
        (HasResponse /\ pc # "inline" /\ IsFirstHeld(InlineKeys, i)
            /\ Held(InlineKeys[i]).t # "b64") =>
            /\ pc \in {"raised", "done"}
            /\ err = Err("PayloadDecode", InlineKeys[i], attempt)
            /\ gets = <<>> /\ source = "" /\ audio_bytes = NoneBytes /\ ~decoded
            /\ speech = NoClip

C5_Witness ==
    /\ pc = "raised" /\ err.kind = "PayloadDecode" /\ err.detail = "encoded_audio"
    /\ response.kind = "object"
    /\ Holds("encodedAudio64") /\ Held("encodedAudio64").t = "b64"

C5_WitnessUrl ==
    /\ pc = "raised" /\ err.kind = "PayloadDecode"
    /\ SomeUrl

\* C6: when no inline key holds a non-empty value and a URL key does, the
\* attempt sends exactly one GET, to the first such URL in the listed order; if
\* the GET fails (network failure or error status) the attempt fails with the
\* download error naming that key, takes no payload from anywhere and does not
\* reach the decoding of audio; if it succeeds the payload is its body.
C6_OneGetToFirstUrl ==
    \A i \in DOMAIN UrlKeys :
        (HasResponse /\ pc \notin {"inline", "url"} /\ ~SomeInline
            /\ IsFirstHeld(UrlKeys, i)) =>
            /\ gets = <<UrlKeys[i]>>
            /\ getOutcome \in GetOutcomes
            /\ IF getOutcome = "ok"
               THEN source = UrlKeys[i] /\ err.kind # "Download"
               ELSE /\ pc \in {"raised", "done"}
                    /\ err = Err("Download", UrlKeys[i], attempt)
                    /\ source = "" /\ audio_bytes = NoneBytes /\ ~decoded /\ speech = NoClip

C6_Witness ==
    /\ pc = "raised" /\ err.kind = "Download" /\ getOutcome = "status"
    /\ ~Holds("audio_file") /\ Holds("audioFile") /\ Holds("signedUrl")
    /\ gets = <<"audioFile">>

\* C7: when the response holds no non-empty inline value and no non-empty URL,
\* the payload is taken from the response itself exactly when the response is
\* raw bytes; and whenever the resolution ends without error in no payload or
\* an empty one, the attempt fails with the no-audio-payload error, and audio
\* decoding is reached only with a non-empty payload.
C7_RawBytesOrNoPayload ==
    /\ (Resolved /\ pc # "raw" /\ ~SomeInline /\ ~SomeUrl) =>
          /\ (source = "raw") <=> (response.kind = "bytes")
          /\ response.kind = "bytes" => audio_bytes = response.raw
          /\ response.kind # "bytes" => audio_bytes = NoneBytes
    /\ (Resolved /\ pc # "raw" /\ err.kind \notin {"PayloadDecode", "Download"}
            /\ audio_bytes.kind \in {"none", "empty"}) =>
          /\ pc \in {"raised", "done"}
          /\ err = Err("NoAudioPayload", "", attempt)
          /\ ~decoded /\ speech = NoClip
    /\ (HasResponse /\ (pc = "decode" \/ decoded)) => audio_bytes.kind \in {"junk", "mp3"}
    /\ err.kind = "NoAudioPayload" => ~decoded

C7_Witness ==
    /\ pc = "decode" /\ response.kind = "bytes" /\ source = "raw"
    /\ audio_bytes = Mp3Bytes(SpeechAnti)

C7_WitnessNoPayload ==
    /\ pc = "raised" /\ err.kind = "NoAudioPayload" /\ response.kind = "object"
    /\ source = "encodedAudio" /\ audio_bytes = EmptyBytes

\* the positions of an attempt before final_audio.export
BeforeExport ==
    {"generate", "inline", "url", "raw", "decode", "norm_speech", "load_intro",
     "load_outro", "mix", "clamp", "norm_final", "export"}

\* the errors of synthesis, payload resolution, decoding, asset loading and normalization
MixErrors ==
    {"EmptyInput", "SynthesisApi", "PayloadDecode", "Download", "NoAudioPayload",
     "AudioParse", "Meter", "MissingAsset", "AssetDecode"}

MixOrder == <<"concat", "clamp", "normalize", "export">>

\* C8: export is the last step of an attempt: until it begins, and when the
\* attempt fails in synthesis, payload resolution, decoding, asset loading or
\* normalization, the file at the output path is the one found when the attempt
\* began; the step returns its result only once the export of the final mix
\* has completed.
C8_NoPartialOutput ==
    /\ pc \in BeforeExport => outFile = fileBefore
    /\ (pc = "raised" /\ err.kind \in MixErrors) =>
          (outFile = fileBefore /\ \A i \in DOMAIN stages : stages[i] # "export")
    /\ pc = "raised" => err.kind \in MixErrors \cup {"Encode"}
    /\ (pc \in {"return"} \/ stepOutcome.status = "returned") =>
          (outFile = Audio(final_audio) /\ stages = MixOrder)
    /\ stepOutcome.status = "returned" => stepOutcome.result = "final_audio_path"

C8_Witness ==
    /\ pc = "raised" /\ err.kind = "AssetDecode" /\ err.detail = "outro"
    /\ attempt = MaxAttempts /\ outFile = OldPodcast /\ speech # NoClip

C8_WitnessMeter ==
    pc = "raised" /\ err.kind = "Meter" /\ outFile = OldPodcast

\* C9: one invocation of the audio step runs at most MaxAttempts attempts with
\* a wait of RetryDelay between two attempts and none after a success; when
\* the last attempt fails, the step raises that attempt's error unchanged and
\* BlogToPodcastPipeline.run raises the same error and returns no result.
C9_BoundedTransparentRetry ==
    /\ attempt <= MaxAttempts /\ bodyRuns <= MaxAttempts
    /\ bodyRuns = IF pc = "body" THEN attempt - 1 ELSE attempt
    /\ Len(waits) = IF attempt = 0 THEN 0 ELSE attempt - 1
    /\ \A i \in DOMAIN waits : waits[i] = RetryDelay
    /\ stepOutcome.status = "returned" => (pc = "done" /\ err = NoErr)
    /\ stepOutcome.status = "raised" =>
          /\ pc = "done" /\ attempt = MaxAttempts
          /\ stepOutcome = Outcome("raised", err, "")
          /\ err.attempt = MaxAttempts /\ err.kind \in MixErrors \cup {"Encode"}
    /\ (runPc = "done" /\ stepOutcome.status = "raised") => runOutcome = Outcome("raised", err, "")
    /\ runOutcome.status = "returned" =>
          (stepOutcome.status = "returned" /\ runOutcome.result = stepOutcome.result)
    /\ (runPc = "done" /\ stepOutcome.status = "returned") => runOutcome.status = "returned"

C9_Witness ==
    /\ caller = "pipeline" /\ runPc = "done"
    /\ runOutcome = Outcome("raised", Err("Download", "signedUrl", MaxAttempts), "")
    /\ waits = <<RetryDelay>> /\ bodyRuns = MaxAttempts

C9_WitnessSecondSucceeds ==
    /\ runOutcome.status = "returned" /\ attempt = MaxAttempts /\ bodyRuns = MaxAttempts

\* C10: the stages of the final mix run in the order concatenate, peak clamp,
\* loudness normalization, export; the clamp is applied to the concatenation,
\* the loudness is measured on the clamped clip and the gain applied to it,
\* the exported file is the normalised clip, and the clamp leaves a
\* concatenation whose peak is at or below 0 dBFS as it is.
C10_MixStageOrder ==
    /\ Len(stages) <= Len(MixOrder)
    /\ \A i \in DOMAIN stages : stages[i] = MixOrder[i]
    /\ pc = "clamp" => stages = <<"concat">>
    /\ pc = "norm_final" =>
          /\ final_audio = clamp_peak(composite)
          /\ max_dBFS(composite) <= 0 => final_audio = composite
    /\ (Len(stages) >= 3 /\ pc # "raised") =>
          LET clamped == IF max_dBFS(composite) > 0
                         THEN apply_gain(composite, 0 - max_dBFS(composite))
                         ELSE composite
              array == segment_to_float_array(clamped)
          IN /\ measured = IF AnyNonZero(array) THEN array ELSE <<>>
             /\ final_audio = IF AnyNonZero(array)
                              THEN apply_gain(clamped, target_lufs - integrated_loudness(array))
                              ELSE clamped
    /\ pc \in {"exporting", "return"} => stages = MixOrder
    /\ pc = "return" => outFile = Audio(final_audio)

C10_Witness ==
    /\ pc = "return" /\ stages = MixOrder /\ measured # <<>>
    /\ max_dBFS(composite) < 0 /\ max_dBFS(final_audio) = target_lufs

\* the clips of the current attempt
MixInputs == {speech, intro_music, outro_music}

\* C11: the mix is the plain concatenation intro, speech, outro: its length
\* (and so its duration) is the sum of the three clips' lengths, its frames are
\* the intro's, then the speech's, then the outro's, each frame taken from one
\* clip; the clamp, the normalization and the export keep that length.
C11_PlainConcatenation ==
    composite # NoClip =>
        LET a == intro_music.frames
            b == speech.frames
            c == outro_music.frames
            m == composite.frames
        IN /\ NoClip \notin MixInputs
           /\ Len(m) = Len(a) + Len(b) + Len(c)
           /\ Len(m) * FrameMs = Len(a) * FrameMs + Len(b) * FrameMs + Len(c) * FrameMs
           /\ \A i \in 1..Len(a) : m[i] = a[i]
           /\ \A i \in 1..Len(b) : m[Len(a) + i] = b[i]
           /\ \A i \in 1..Len(c) : m[Len(a) + Len(b) + i] = c[i]
           /\ final_audio # NoClip => Len(final_audio.frames) = Len(m)
           /\ pc = "return" => Len(outFile.clip.frames) = Len(m)

C11_Witness ==
    /\ pc = "return" /\ introFile = Audio(MusicSilent) /\ outroFile = Audio(MusicTone)
    /\ Len(intro_music.frames) = 8 /\ Len(speech.frames) = 3 /\ Len(outro_music.frames) = 8
    /\ Len(outFile.clip.frames) = 19

Format(c) == <<c.frame_rate, c.sample_width, c.channels>>
StdFormat == <<StdFrameRate, StdSampleWidth, StdChannels>>

\* the clips decoded from the payload and from the asset files of the current state
DecodedClips ==
    (IF audio_bytes.kind = "mp3" THEN {audio_bytes.clip} ELSE {})
    \cup {f.clip : f \in {g \in {introFile, outroFile} : g.kind = "audio"}}

\* C12: every clip the attempt holds (the speech from synthesis, the intro and
\* the outro from the loader, before and after their loudness normalization,
\* the mix made of them) has 44100 Hz, 2 bytes per sample and 2 channels, with
\* two samples in every frame; the three are present when the mix is made;
\* normalization leaves the format of a clip as it is, and standardizing a
\* second time changes nothing.
C12_StandardFormatIntoMix ==
    /\ \A c \in MixInputs \cup {composite, final_audio} :
          c # NoClip =>
              /\ Format(c) = StdFormat
              /\ \A i \in DOMAIN c.frames : DOMAIN c.frames[i] = 1..StdChannels
    /\ pc = "mix" => NoClip \notin MixInputs
    /\ \A c \in MixInputs \ {NoClip} :
          \A t \in {target_lufs + speech_delta_db, target_lufs + music_delta_db, target_lufs} :
              normalize_lufs(c, t).ok => Format(normalize_lufs(c, t).segment) = Format(c)
    /\ \A c \in DecodedClips \cup (MixInputs \ {NoClip}) :
          /\ Format(standardize_segment(c)) = StdFormat
          /\ standardize_segment(standardize_segment(c)) = standardize_segment(c)

C12_Witness ==
    /\ pc = "mix" /\ introFile = Audio(MusicSilent) /\ outroFile = Audio(MusicTone)
    /\ Len(speech.frames) = 3 /\ source = "raw"
    /\ Format(MusicSilent) # StdFormat /\ Format(MusicTone) # StdFormat /\ Format(SpeechTone) # StdFormat

\* every sample of the clip, in every channel, is zero
AllZero(segment) == \A x \in SamplesOf(segment) : x.sgn = 0

\* C13: the normalization of a clip whose samples are all zero returns, for
\* every target, the clip it was given, having measured nothing and applied
\* no gain (also for a clip too short for the meter).
C13_SilenceIsIdentity ==
    (norm.pc = "done" /\ AllZero(norm.segment)) =>
        /\ norm.result.ok
        /\ norm.result.segment = norm.segment
        /\ norm.result.measured = <<>>

C13_Witness ==
    /\ norm.pc = "done" /\ AllZero(norm.segment)
    /\ norm.segment.channels = 2 /\ Len(norm.segment.frames) = 1
    /\ norm.target = target_lufs + music_delta_db
    /\ norm.result = NormOk(norm.segment, <<>>)

\* C16 as stated: for every clip with a non-zero sample in some channel the
\* normalizer measures the loudness (it does not return the clip as it is
\* without a measurement) and, when the meter gives a value, returns the clip
\* with the gain target minus measured applied.
C16_SkippedOnlyForAllZero ==
    (norm.pc = "done" /\ ~AllZero(norm.segment)) =>
        /\ norm.result.measured # <<>>
        /\ norm.result.ok =>
              norm.result.segment =
                  apply_gain(norm.segment, norm.target - integrated_loudness(norm.result.measured))

\* a clip with non-zero samples whose channels cancel in every frame is
\* returned as it is, nothing measured
C16_Witness ==
    /\ norm.pc = "done" /\ Len(norm.segment.frames) = 2
    /\ \A i \in DOMAIN norm.segment.frames :
          norm.segment.frames[i] = <<Smp(1, -6), Smp(-1, -6)>>
    /\ norm.target = target_lufs + speech_delta_db
    /\ norm.result = NormOk(norm.segment, <<>>)
    /\ max_dBFS(norm.result.segment) = -6

\* C15: a call of _synthesize writes no file (the file at the output path and
\* the assets stay as they were), changes nothing of the audio step outside
\* its own frame, and makes one generate call and at most one GET; and a call
\* to which the remote side gives what it gave to the call before gives back
\* the same clip or the same error as the call before.
C15_SynthesizeIdempotent ==
    /\ outFile = fileBefore
    /\ introFile = Audio(MusicTone) /\ outroFile = Audio(MusicTone)
    /\ attempt = 0 /\ stepOutcome = Pending /\ bodyRuns = 0 /\ waits = <<>>
    /\ intro_music = NoClip /\ outro_music = NoClip
    /\ composite = NoClip /\ final_audio = NoClip /\ stages = <<>>
    /\ genCalls <= SynthCalls
    /\ genNow <= 1 /\ Len(gets) <= 1 /\ getCalls <= genCalls
    /\ \A before \in synthLog :
          (pc \in {"norm_speech", "raised"} /\ before.given = SynthGiven) =>
              before.out = SynthOut

C15_Witness ==
    /\ caller = "synthesize" /\ pc = "norm_speech" /\ genCalls = 2 /\ getCalls = 2
    /\ outFile = OldPodcast
    /\ getOutcome = "ok" /\ audio_bytes = Mp3Bytes(SpeechTone)
    /\ speech = standardize_segment(SpeechTone)
    /\ synthLog = {[given |-> SynthGiven, out |-> SynthOut]}

C15_WitnessError ==
    /\ caller = "synthesize" /\ pc = "raised" /\ genCalls = 2 /\ err.kind = "PayloadDecode"
    /\ synthLog = {[given |-> SynthGiven, out |-> SynthOut]}

\* C14: nothing keeps the conversions of concurrent requests apart at the
\* output path: a conversion that begins its export truncates the one file,
\* whatever another conversion has written or is writing there; its write goes
\* over what is there; and the download of a request whose conversion has
\* succeeded is given the file that is at the path at that moment, whoever
\* wrote it and whether or not it is complete.
C14_SharedOutputUnprotected ==
    [][\A r \in Requests :
          /\ (web[r].pc = "export" /\ web'[r].pc = "exporting") => outFile' = Truncated
          /\ (web[r].pc = "exporting" /\ web'[r].pc = "exported") =>
                outFile' = Overwrite(outFile, MixOf(r))
          /\ web'[r].served # web[r].served =>
                /\ web[r].pc = "succeeded"
                /\ web'[r].served = Append(web[r].served, outFile)
                /\ outFile.kind \in {"partial", "audio"}]_vars

\* request 2, whose conversion succeeded, was served a file that the
\* conversion of request 1 was still writing and, asking again, the mix of the
\* script of request 1
C14_Witness ==
    /\ web[2].pc = "succeeded" /\ web[1].pc = "succeeded"
    /\ web[2].served = <<Truncated, Audio(MixOf(1))>>

\* two exports at once; and a file that is the head of one mix and the tail of another
C14_WitnessBothWriting == web[1].pc = "exporting" /\ web[2].pc = "exporting"

C14_WitnessMixed ==
    /\ web[1].pc = "succeeded" /\ web[1].served # <<>>
    /\ web[1].served[1].kind = "audio"
    /\ web[1].served[1] \notin {Audio(MixOf(r)) : r \in Requests} \cup {OldPodcast}

\* C17: for every non-empty cleaned text the script step returns a non-empty
\* script without raising and without a second attempt, whatever the language
\* model does (the fallback script replaces a failed or rejected answer in the
\* same attempt), having called the language model exactly once; only an
\* empty or absent cleaned text makes the step raise, on each of its
\* SgMaxAttempts attempts and without a call of the language model; and the
\* audio step, which the pipeline invokes only with a returned script, never
\* raises its empty-script error.
C17_ScriptNeverEmpty ==
    /\ ~IsFalsy(sg.clean) =>
          /\ sg.pc # "raised" /\ sg.outcome # "raised"
          /\ sg.attempt <= 1 /\ sg.waits = <<>> /\ sg.llmCalls <= 1
          /\ sg.pc = "done" =>
                /\ sg.outcome = "returned" /\ sg.llmCalls = 1
                /\ ~IsFalsy(sg.script) /\ strip(sg.script) # <<>>
                /\ sg.fallback <=> (~run_groq(sg.reply).ok \/ IsHtmlPage(run_groq(sg.reply).text)
                                      \/ run_groq(sg.reply).text = <<>>)
                /\ sg.fallback => sg.script = build_fallback_script(sg.clean)
                /\ ~sg.fallback => sg.script = strip(sg.reply.content)
    /\ IsFalsy(sg.clean) =>
          /\ sg.llmCalls = 0 /\ sg.outcome # "returned"
          /\ sg.pc = "done" =>
                /\ sg.outcome = "raised" /\ sg.attempt = SgMaxAttempts
                /\ sg.waits = <<SgRetryDelay, SgRetryDelay>>
    /\ pc # "idle" => (sg.outcome = "returned" /\ script = "text")
    /\ pc # "raised" /\ err.kind # "EmptyInput"

\* a whitespace-only answer: the fallback script goes to the audio step, which
\* passes its guard
C17_Witness ==
    /\ sg.pc = "done" /\ sg.fallback /\ sg.llmCalls = 1 /\ sg.attempt = 1
    /\ sg.clean = <<" ", "a">>
    /\ sg.reply = Reply("content", <<" ", " ">>)
    /\ pc = "generate" /\ script = "text"

C17_WitnessHtml ==
    /\ sg.pc = "done" /\ sg.fallback /\ sg.reply = Reply("content", <<" ", "<html">>)

C17_WitnessBlankText ==
    /\ sg.pc = "done" /\ sg.clean = <<" ">> /\ sg.reply.kind = "api_error"
    /\ sg.script = <<"[", "a">> /\ pc = "generate"

=============================================================================
